---- MODULE Spec2Model ----
(***************************************************************************)
(* Model of the two batch optimizers of the repository:                    *)
(*   optimize_media.py      (Servicios -> ServiciosOptimized, images and   *)
(*                           videos, everything else copied verbatim)      *)
(*   optimize_productos.py  (Productos -> ProductosOptimized, images only) *)
(*                                                                         *)
(* Spec        the run of main() of either pipeline over a source tree     *)
(* SpecResize  the resize computation of optimize_image over image sizes   *)
(* SpecScale   the scale filter of optimize_video over video sizes         *)
(***************************************************************************)
EXTENDS Integers, Sequences, FiniteSets, TLC

VARIABLES pipeline,           \* "media" or "productos": which script runs
          source_exists,      \* SOURCE_DIR.exists()
          tree,               \* SOURCE_DIR.rglob('*') in traversal order
          pc,                 \* position of main()
          files_to_process,   \* the filtered list main() iterates over
          idx,                \* 1-based position of the loop
          stats,              \* the stats dict of main()
          output_dir_created, \* OUTPUT_DIR.mkdir has run
          fs,                 \* files under OUTPUT_DIR: path -> content
          writers,            \* per destination path, the source files written to it
          log,                \* one entry per file handled by the loop
          printed,            \* console output, as a sequence of events
          crash,              \* the exception that left main(), if any
          img_size,           \* SpecResize: img.size before the resize
          new_size,           \* SpecResize: img.size after the resize
          vid_size,           \* SpecScale: size of the source video
          vid_out             \* SpecScale: size ffmpeg produces

vars == <<pipeline, source_exists, tree, pc, files_to_process, idx, stats,
          output_dir_created, fs, writers, log, printed, crash,
          img_size, new_size, vid_size, vid_out>>

mainVars == <<pipeline, source_exists, tree, pc, files_to_process, idx, stats,
              output_dir_created, fs, writers, log, printed, crash>>

pureVars == <<img_size, new_size, vid_size, vid_out>>

-----------------------------------------------------------------------------
(* Bounds of the model *)

MaxFiles == 2        \* entries of the source tree
MaxSize == 2         \* file sizes range over 0..MaxSize
DimSteps == 16       \* image and video sizes: multiples of DimStride
DimStride == 271

-----------------------------------------------------------------------------
(* Configuration constants of the scripts *)

IMAGE_MAX_WIDTH == 1920
IMAGE_MAX_HEIGHT == 1080
CONVERT_TO_WEBP == TRUE
VIDEO_MAX_HEIGHT == 720

IMAGE_EXTENSIONS == {".jpg", ".jpeg", ".png", ".webp", ".JPG", ".JPEG", ".PNG", ".WEBP"}
VIDEO_EXTENSIONS == {".mp4", ".mov", ".avi", ".mkv", ".MP4", ".MOV", ".AVI", ".MKV"}

-----------------------------------------------------------------------------
(* Paths.  A path relative to a root is [stem, suffix]; the stem carries   *)
(* the directory part, so "sub/a" and "a" are different files.            *)

Rel(stem, suffix) == [stem |-> stem, suffix |-> suffix]

\* the regular files a source tree of the model may hold
SourceRelPaths == {Rel("a", ".jpg"), Rel("a", ".PNG"), Rel("a", ".webp"),
                   Rel("a", ".mp4"), Rel("sub/a", ".txt")}

\* entries rglob('*') can yield: regular files and the directory "sub"
Entries == [rel : SourceRelPaths, is_file : {TRUE}]
             \cup {[rel |-> Rel("sub", ""), is_file |-> FALSE]}

\* Path.with_suffix
WithSuffix(path, suffix) == [path EXCEPT !.suffix = suffix]

Range(s) == {s[k] : k \in DOMAIN s}

\* d[k] = v for a Python dict d
SetItem(d, k, v) == [x \in DOMAIN d \cup {k} |-> IF x = k THEN v ELSE d[x]]

EmptyDict == [x \in {} |-> 0]

-----------------------------------------------------------------------------
(* Sizes.  get_file_size_mb is st_size / 2^20; the model counts sizes in   *)
(* whole units, and a percentage is floored to a whole number.             *)

Sizes == 0..MaxSize

\* (1 - optimized / original) * 100; division by zero raises
ReductionPercent(optimized, original) ==
    IF original = 0
    THEN [raises |-> "ZeroDivisionError", value |-> 0]
    ELSE [raises |-> "None", value |-> ((original - optimized) * 100) \div original]

-----------------------------------------------------------------------------
(* optimize_image (the same body in both scripts).                         *)
(* env is what the world does during the call:                             *)
(*   osz      size of the source file                                      *)
(*   stage    the first step of the try block that raises, or "ok" (an     *)
(*            error of output_path.parent.mkdir takes the same except      *)
(*            branch as a decode error and is not told apart)              *)
(*   nsz      size of the file the encoder writes                          *)
(*   copy_ok  whether the fallback shutil.copy2 succeeds                   *)
(* A call yields: raised, the exception that leaves it ("None": it         *)
(* returns); exc, the exception its try block ended with; result, the      *)
(* dict; writes, the files it wrote, in order.                             *)

ImageStages == {"ok", "decode", "resize", "encode"}
VideoStages == {"ok", "FileNotFoundError", "returncode", "TimeoutExpired"}

\* an empty file is neither an image nor a video: its decoding never succeeds
Envs(stages) ==
    {env \in [osz : Sizes, stage : stages, nsz : 1..MaxSize, copy_ok : BOOLEAN] :
        env.osz = 0 => env.stage # "ok"}

NewResult(source_path, output_path, env) ==
    [source |-> source_path, output |-> output_path,
     original_size_mb |-> env.osz, success |-> FALSE, error |-> "None"]

CopyOf(source_path, env) == [kind |-> "copy", of |-> source_path, size |-> env.osz]

\* a fallback that records the error but leaves the destination untouched
FallbackCopyNoCopy(t, error, source_path, output_path, env) ==
    IF env.copy_ok
    THEN LET r1 == SetItem(t.result, "error", error)
             r2 == SetItem(r1, "optimized_size_mb", env.osz)
             r3 == SetItem(r2, "reduction_percent", 0)
         IN [raised |-> "None", exc |-> t.exc, result |-> r3, writes |-> t.writes]
    ELSE [raised |-> "OSError", exc |-> t.exc, result |-> t.result, writes |-> t.writes]

\* the except block: record the error, copy the original, size of the copy, 0 %
FallbackCopy(t, error, source_path, output_path, env) ==
    IF env.copy_ok
    THEN LET r1 == SetItem(t.result, "error", error)
             r2 == SetItem(r1, "optimized_size_mb", env.osz)
             r3 == SetItem(r2, "reduction_percent", 0)
         IN [raised |-> "None", exc |-> t.exc, result |-> r3,
             writes |-> Append(t.writes, [path |-> output_path,
                                          content |-> CopyOf(source_path, env)])]
    ELSE [raised |-> "OSError", exc |-> t.exc, result |-> t.result, writes |-> t.writes]

\* the try block of optimize_image: exc is the exception it ends with
ImageTry(source_path, output_path, env) ==
    LET r0 == NewResult(source_path, output_path, env)
        final_output == IF CONVERT_TO_WEBP THEN WithSuffix(output_path, ".webp")
                                           ELSE output_path
        saved == <<[path |-> final_output,
                    content |-> [kind |-> "WEBP", of |-> source_path, size |-> env.nsz]]>>
        r1 == SetItem(r0, "output", final_output)
        r2 == SetItem(r1, "optimized_size_mb", env.nsz)
        red == ReductionPercent(env.nsz, env.osz)
        r3 == SetItem(r2, "reduction_percent", red.value)
        r4 == SetItem(r3, "success", TRUE)
    IN  IF env.stage # "ok"
        THEN [exc |-> env.stage, result |-> r0, writes |-> <<>>]
        ELSE IF red.raises # "None"
        THEN [exc |-> red.raises, result |-> r2, writes |-> saved]
        ELSE [exc |-> "None", result |-> r4, writes |-> saved]

optimize_image(source_path, output_path, env) ==
    LET t == ImageTry(source_path, output_path, env)
    IN  IF t.exc = "None"
        THEN [raised |-> "None", exc |-> "None", result |-> t.result, writes |-> t.writes]
        ELSE FallbackCopy(t, t.exc, source_path, output_path, env)

\* the try block of optimize_video
VideoTry(source_path, output_path, env) ==
    LET r0 == NewResult(source_path, output_path, env)
        encoded == <<[path |-> output_path,
                      content |-> [kind |-> "h264", of |-> source_path, size |-> env.nsz]]>>
        r1 == SetItem(r0, "optimized_size_mb", env.nsz)
        red == ReductionPercent(env.nsz, env.osz)
        r2 == SetItem(r1, "reduction_percent", red.value)
        r3 == SetItem(r2, "success", TRUE)
    IN  IF env.stage # "ok"
        THEN [exc |-> env.stage, result |-> r0, writes |-> <<>>]
        ELSE IF red.raises # "None"
        THEN [exc |-> red.raises, result |-> r1, writes |-> encoded]
        ELSE [exc |-> "None", result |-> r3, writes |-> encoded]

optimize_video(source_path, output_path, env) ==
    LET t == VideoTry(source_path, output_path, env)
    IN  IF t.exc = "None"
        THEN [raised |-> "None", exc |-> "None", result |-> t.result, writes |-> t.writes]
        ELSE IF t.exc = "FileNotFoundError"
        THEN FallbackCopy(t, "FFmpeg no encontrado", source_path, output_path, env)
        ELSE FallbackCopy(t, t.exc, source_path, output_path, env)

-----------------------------------------------------------------------------
(* main(): the roots, the enumeration and the dispatch                     *)

SourcePath(rel) == [root |-> "SOURCE_DIR", stem |-> rel.stem, suffix |-> rel.suffix]

\* source_file.relative_to(SOURCE_DIR)
RelativeTo(path) == [stem |-> path.stem, suffix |-> path.suffix]

\* OUTPUT_DIR / relative_path
OutputFile(relative_path) ==
    [root |-> "OUTPUT_DIR", stem |-> relative_path.stem, suffix |-> relative_path.suffix]

\* the trees rglob can return: distinct entries, in any traversal order
Trees == UNION {{t \in [1..n -> Entries] : \A j, k \in 1..n : j # k => t[j] # t[k]}
                : n \in 0..MaxFiles}

\* [f for f in all_files if f.is_file()]
MediaFilter(all_files) ==
    SelectSeq(all_files, LAMBDA f : f.is_file)

\* a productos filter that forgets the suffix test
ProductosFilterAllFiles(all_files) ==
    SelectSeq(all_files, LAMBDA f : f.is_file)

\* [f for f in all_files if f.is_file() and f.suffix in IMAGE_EXTENSIONS]
ProductosFilter(all_files) ==
    SelectSeq(all_files, LAMBDA f : f.is_file /\ f.rel.suffix \in IMAGE_EXTENSIONS)

\* the if / elif / else of the media loop
Route(suffix) ==
    IF suffix \in IMAGE_EXTENSIONS THEN "images"
    ELSE IF suffix \in VIDEO_EXTENSIONS THEN "videos"
    ELSE "copy"

ZeroStats == [processed |-> 0, original_size |-> 0, optimized_size |-> 0, errors |-> 0]

\* a fold that counts an error for every result
AccumulateCountsEveryError(data, result) ==
    [processed      |-> data.processed + 1,
     original_size  |-> data.original_size + result["original_size_mb"],
     optimized_size |-> data.optimized_size + result["optimized_size_mb"],
     errors         |-> data.errors + 1]

\* the four statements that fold one result into a stats record
Accumulate(data, result) ==
    [processed      |-> data.processed + 1,
     original_size  |-> data.original_size + result["original_size_mb"],
     optimized_size |-> data.optimized_size + result["optimized_size_mb"],
     errors         |-> IF result["success"] THEN data.errors ELSE data.errors + 1]

\* apply the writes of one call, in order, to the destination tree
RECURSIVE ApplyWrites(_, _)
ApplyWrites(files, writes) ==
    IF writes = <<>> THEN files
    ELSE ApplyWrites(SetItem(files, Head(writes).path, Head(writes).content), Tail(writes))

RECURSIVE NoteWriters(_, _)
NoteWriters(w, writes) ==
    IF writes = <<>> THEN w
    ELSE LET p == Head(writes).path
             old == IF p \in DOMAIN w THEN w[p] ELSE {}
         IN NoteWriters(SetItem(w, p, old \cup {Head(writes).content.of}), Tail(writes))

Event(name, detail) == [ev |-> name, detail |-> detail]

ResultLine(i, result) ==
    IF result["success"]
    THEN Event("ok", <<i, result["original_size_mb"], result["optimized_size_mb"],
                       result["reduction_percent"]>>)
    ELSE Event("warn", <<i, result["error"]>>)

-----------------------------------------------------------------------------
(* The run of main() *)

NoCrash == [exc |-> "None", at |-> 0, from |-> "None"]

Init ==
    /\ pipeline \in {"media", "productos"}
    /\ source_exists \in BOOLEAN
    /\ tree \in IF source_exists THEN Trees ELSE {<<>>}
    /\ pc = "start"
    /\ files_to_process = <<>>
    /\ idx = 0
    /\ stats = EmptyDict
    /\ output_dir_created = FALSE
    /\ fs = EmptyDict
    /\ writers = EmptyDict
    /\ log = <<>>
    /\ printed = <<>>
    /\ crash = NoCrash
    /\ img_size = <<0, 0>>
    /\ new_size = <<0, 0>>
    /\ vid_size = <<0, 0>>
    /\ vid_out = <<0, 0>>

\* a check that takes the source directory for granted
SourceDirAssumed == TRUE

\* SOURCE_DIR.exists()
SourceDirExists == source_exists

\* if not SOURCE_DIR.exists(): print the error and return
MissingSource ==
    /\ pc = "start"
    /\ ~SourceDirExists
    /\ printed' = printed \o <<Event("banner", pipeline), Event("error_missing", "SOURCE_DIR")>>
    /\ pc' = "returned"
    /\ UNCHANGED <<pipeline, source_exists, tree, files_to_process, idx, stats,
                   output_dir_created, fs, writers, log, crash>>
    /\ UNCHANGED pureVars

\* OUTPUT_DIR.mkdir, stats = {...}, the enumeration and its filter
Enumerate ==
    /\ pc = "start"
    /\ SourceDirExists
    /\ output_dir_created' = TRUE
    /\ stats' = IF pipeline = "media"
                THEN [images |-> ZeroStats, videos |-> ZeroStats]
                ELSE ZeroStats
    /\ files_to_process' = IF pipeline = "media" THEN MediaFilter(tree)
                                                 ELSE ProductosFilter(tree)
    /\ idx' = 1
    /\ printed' = printed \o <<Event("banner", pipeline),
                               Event("found", Len(files_to_process'))>>
    /\ pc' = "loop"
    /\ UNCHANGED <<pipeline, source_exists, tree, fs, writers, log, crash>>
    /\ UNCHANGED pureVars

InLoop == pc = "loop" /\ idx <= Len(files_to_process)

source_file == SourcePath(files_to_process[idx].rel)

\* what one iteration does with the outcome of optimize_image / optimize_video
Fold(category, call) ==
    IF call.raised # "None"
    THEN /\ crash' = [exc |-> call.raised, at |-> idx,
                      from |-> IF category = "images" THEN "optimize_image"
                                                      ELSE "optimize_video"]
         /\ pc' = "crashed"
         /\ fs' = ApplyWrites(fs, call.writes)
         /\ writers' = NoteWriters(writers, call.writes)
         /\ printed' = Append(printed, Event("progress", idx))
         /\ UNCHANGED <<stats, log, idx>>
    ELSE /\ stats' = IF pipeline = "media"
                     THEN [stats EXCEPT ![category] = Accumulate(@, call.result)]
                     ELSE Accumulate(stats, call.result)
         /\ log' = Append(log, [source |-> source_file, route |-> category,
                                exc |-> call.exc, result |-> call.result])
         /\ fs' = ApplyWrites(fs, call.writes)
         /\ writers' = NoteWriters(writers, call.writes)
         /\ printed' = printed \o <<Event("progress", idx), ResultLine(idx, call.result)>>
         /\ idx' = idx + 1
         /\ UNCHANGED <<pc, crash>>

\* media loop, suffix in IMAGE_EXTENSIONS
MediaImage ==
    /\ pipeline = "media"
    /\ InLoop
    /\ Route(source_file.suffix) = "images"
    /\ \E env \in Envs(ImageStages) :
          Fold("images", optimize_image(source_file, OutputFile(RelativeTo(source_file)), env))
    /\ UNCHANGED <<pipeline, source_exists, tree, files_to_process, output_dir_created>>
    /\ UNCHANGED pureVars

\* media loop, suffix in VIDEO_EXTENSIONS
MediaVideo ==
    /\ pipeline = "media"
    /\ InLoop
    /\ Route(source_file.suffix) = "videos"
    /\ \E env \in Envs(VideoStages) :
          Fold("videos", optimize_video(source_file, OutputFile(RelativeTo(source_file)), env))
    /\ UNCHANGED <<pipeline, source_exists, tree, files_to_process, output_dir_created>>
    /\ UNCHANGED pureVars

\* media loop, else branch: mkdir, copy2, "Copiado sin cambios", continue
MediaCopy ==
    /\ pipeline = "media"
    /\ InLoop
    /\ Route(source_file.suffix) = "copy"
    /\ \E osz \in Sizes, copy_ok \in BOOLEAN :
          LET output_file == OutputFile(RelativeTo(source_file))
              write == <<[path |-> output_file,
                          content |-> [kind |-> "copy", of |-> source_file, size |-> osz]]>>
          IN IF copy_ok
             THEN /\ fs' = ApplyWrites(fs, write)
                  /\ writers' = NoteWriters(writers, write)
                  /\ log' = Append(log, [source |-> source_file, route |-> "copy"])
                  /\ printed' = printed \o <<Event("progress", idx), Event("copied", idx)>>
                  /\ idx' = idx + 1
                  /\ UNCHANGED <<pc, crash>>
             ELSE /\ crash' = [exc |-> "OSError", at |-> idx, from |-> "main"]
                  /\ pc' = "crashed"
                  /\ printed' = Append(printed, Event("progress", idx))
                  /\ UNCHANGED <<fs, writers, log, idx>>
    /\ UNCHANGED <<pipeline, source_exists, tree, files_to_process, stats, output_dir_created>>
    /\ UNCHANGED pureVars

\* productos loop: every listed file goes to optimize_image
ProductosImage ==
    /\ pipeline = "productos"
    /\ InLoop
    /\ \E env \in Envs(ImageStages) :
          Fold("images", optimize_image(source_file, OutputFile(RelativeTo(source_file)), env))
    /\ UNCHANGED <<pipeline, source_exists, tree, files_to_process, output_dir_created>>
    /\ UNCHANGED pureVars

-----------------------------------------------------------------------------
(* The summary of main() *)

\* a summary that divides without looking at the divisor
SummaryReductionUnguarded(optimized, original) ==
    [shown |-> TRUE, pct |-> ReductionPercent(optimized, original)]

\* "if data['original_size'] > 0": the percentage is computed only then
SummaryReduction(optimized, original) ==
    IF original > 0
    THEN [shown |-> TRUE, pct |-> ReductionPercent(optimized, original)]
    ELSE [shown |-> FALSE, pct |-> [raises |-> "None", value |-> 0]]

\* the block printed for one stats record
SummaryOf(data) ==
    [processed |-> data.processed, original_size |-> data.original_size,
     optimized_size |-> data.optimized_size,
     reduction |-> SummaryReduction(data.optimized_size, data.original_size),
     errors_shown |-> data.errors > 0, errors |-> data.errors]

\* for category, data in stats.items(): if data['processed'] > 0: ...
MediaCategories == {c \in {"images", "videos"} : stats[c].processed > 0}

MediaTotal ==
    LET total_original == stats["images"].original_size + stats["videos"].original_size
        total_optimized == stats["images"].optimized_size + stats["videos"].optimized_size
    IN [original |-> total_original, optimized |-> total_optimized,
        reduction |-> SummaryReduction(total_optimized, total_original)]

Finish(raises, summary) ==
    IF raises
    THEN /\ crash' = [exc |-> "ZeroDivisionError", at |-> idx, from |-> "main"]
         /\ pc' = "crashed"
         /\ UNCHANGED printed
    ELSE /\ printed' = printed \o <<Event("summary", summary), Event("saved", "OUTPUT_DIR")>>
         /\ pc' = "done"
         /\ UNCHANGED crash

\* media: after the loop, the per-category blocks and the grand total
MediaSummary ==
    /\ pipeline = "media"
    /\ pc = "loop"
    /\ idx > Len(files_to_process)
    /\ LET blocks == [c \in MediaCategories |-> SummaryOf(stats[c])]
           total == MediaTotal
       IN Finish((\E c \in MediaCategories : blocks[c].reduction.pct.raises # "None")
                    \/ total.reduction.pct.raises # "None",
                 [categories |-> blocks, total |-> total])
    /\ UNCHANGED <<pipeline, source_exists, tree, files_to_process, idx, stats,
                   output_dir_created, fs, writers, log>>
    /\ UNCHANGED pureVars

\* productos: after the loop, the single block
ProductosSummary ==
    /\ pipeline = "productos"
    /\ pc = "loop"
    /\ idx > Len(files_to_process)
    /\ LET block == SummaryOf(stats)
       IN Finish(block.reduction.pct.raises # "None", [images |-> block])
    /\ UNCHANGED <<pipeline, source_exists, tree, files_to_process, idx, stats,
                   output_dir_created, fs, writers, log>>
    /\ UNCHANGED pureVars

Next ==
    \/ MissingSource
    \/ Enumerate
    \/ MediaImage
    \/ MediaVideo
    \/ MediaCopy
    \/ ProductosImage
    \/ MediaSummary
    \/ ProductosSummary

Spec == Init /\ [][Next]_vars

-----------------------------------------------------------------------------
(* The resize computation of optimize_image.                               *)
(*   ratio = min(IMAGE_MAX_WIDTH / img.width, IMAGE_MAX_HEIGHT / img.height)*)
(*   new_size = (int(img.width * ratio), int(img.height * ratio))          *)
(* ratio is a double.  A limit num/den whose reduced denominator is a      *)
(* power of two is held exactly; any other is rounded, so a product whose  *)
(* exact value is a whole number q may come out just below q and int()     *)
(* then yields q - 1.  Both outcomes are kept.                             *)

RECURSIVE GCD(_, _)
GCD(a, b) == IF b = 0 THEN a ELSE GCD(b, a % b)

RECURSIVE IsPowerOfTwo(_)
IsPowerOfTwo(n) == IF n = 1 THEN TRUE ELSE IF n % 2 # 0 THEN FALSE ELSE IsPowerOfTwo(n \div 2)

\* the values int(x * (num / den)) can take in double arithmetic
IntOfProduct(x, num, den) ==
    LET q == (x * num) \div den
    IN IF (x * num) % den = 0 /\ ~IsPowerOfTwo(den \div GCD(num, den))
       THEN {q, q - 1}
       ELSE {q}

\* a ratio that looks at the width limit alone
MinRatioWidthOnly(width, height) ==
    [num |-> IMAGE_MAX_WIDTH, den |-> width]

\* min(IMAGE_MAX_WIDTH / width, IMAGE_MAX_HEIGHT / height) as a fraction
MinRatio(width, height) ==
    IF IMAGE_MAX_WIDTH * height <= IMAGE_MAX_HEIGHT * width
    THEN [num |-> IMAGE_MAX_WIDTH, den |-> width]
    ELSE [num |-> IMAGE_MAX_HEIGHT, den |-> height]

\* img.size after "if img.width > IMAGE_MAX_WIDTH or img.height > IMAGE_MAX_HEIGHT"
ResizeOutcomes(size) ==
    LET width == size[1]
        height == size[2]
        ratio == MinRatio(width, height)
    IN IF width > IMAGE_MAX_WIDTH \/ height > IMAGE_MAX_HEIGHT
       THEN IntOfProduct(width, ratio.num, ratio.den)
               \X IntOfProduct(height, ratio.num, ratio.den)
       ELSE {size}

\* widths and heights of the model: a grid, the limits and their neighbours
Dims == {k * DimStride : k \in 1..DimSteps}
           \cup {1, 2, IMAGE_MAX_HEIGHT - 1, IMAGE_MAX_HEIGHT, IMAGE_MAX_HEIGHT + 1,
                 IMAGE_MAX_WIDTH - 1, IMAGE_MAX_WIDTH, IMAGE_MAX_WIDTH + 1,
                 2 * IMAGE_MAX_HEIGHT, 2 * IMAGE_MAX_WIDTH, 3000, 2000, 10000}

Dormant ==
    /\ pipeline = "none"
    /\ source_exists = FALSE
    /\ tree = <<>>
    /\ files_to_process = <<>>
    /\ idx = 0
    /\ stats = EmptyDict
    /\ output_dir_created = FALSE
    /\ fs = EmptyDict
    /\ writers = EmptyDict
    /\ log = <<>>
    /\ printed = <<>>
    /\ crash = NoCrash

InitResize ==
    /\ Dormant
    /\ pc = "decoded"
    /\ img_size \in Dims \X Dims
    /\ new_size = <<0, 0>>
    /\ vid_size = <<0, 0>>
    /\ vid_out = <<0, 0>>

\* lines 75-80 of optimize_image
Resize ==
    /\ pc = "decoded"
    /\ new_size' \in ResizeOutcomes(img_size)
    /\ pc' = "resized"
    /\ UNCHANGED <<pipeline, source_exists, tree, files_to_process, idx, stats,
                   output_dir_created, fs, writers, log, printed, crash>>
    /\ UNCHANGED <<img_size, vid_size, vid_out>>

NextResize == Resize

SpecResize == InitResize /\ [][NextResize]_vars

-----------------------------------------------------------------------------
(* The scale filter of optimize_video: 'scale=-2:{VIDEO_MAX_HEIGHT}'.      *)
(* ffmpeg sets the output height to the number given and, for a width of   *)
(* -2, the width that keeps the aspect ratio, rounded to a multiple of 2.  *)

ScaleFilter == [w |-> 0 - 2, h |-> VIDEO_MAX_HEIGHT]

FfmpegScale(filter, size) ==
    LET in_w == size[1]
        in_h == size[2]
        out_h == filter.h
        factor == 0 - filter.w
        out_w == ((2 * out_h * in_w + in_h * factor) \div (2 * in_h * factor)) * factor
    IN <<out_w, out_h>>

VideoDims == {k * DimStride : k \in 1..DimSteps}
                \cup {240, 360, 480, VIDEO_MAX_HEIGHT, 1080, 1280, 1920, 640}

InitScale ==
    /\ Dormant
    /\ pc = "probe"
    /\ vid_size \in VideoDims \X VideoDims
    /\ vid_out = <<0, 0>>
    /\ img_size = <<0, 0>>
    /\ new_size = <<0, 0>>

\* lines 128-148 of optimize_video, with ffmpeg succeeding
Scale ==
    /\ pc = "probe"
    /\ vid_out' = FfmpegScale(ScaleFilter, vid_size)
    /\ pc' = "scaled"
    /\ UNCHANGED <<pipeline, source_exists, tree, files_to_process, idx, stats,
                   output_dir_created, fs, writers, log, printed, crash>>
    /\ UNCHANGED <<img_size, new_size, vid_size>>

NextScale == Scale

SpecScale == InitScale /\ [][NextScale]_vars

-----------------------------------------------------------------------------
(* Properties *)

RegularFiles == {SourcePath(tree[k].rel) : k \in {j \in DOMAIN tree : tree[j].is_file}}

\* the log entries about one source file
Handled(f) == {j \in DOMAIN log : log[j].source = f}

Running == pc \in {"loop", "done", "crashed"}

WrittenFrom(f) == {p \in DOMAIN writers : f \in writers[p]}

HoldsCopy(p, f) == p \in DOMAIN fs /\ fs[p].kind = "copy" /\ fs[p].of = f

C2_NoExceptionLeavesTheTranscoders ==
    /\ crash.from \notin {"optimize_image", "optimize_video"}
    /\ \A j \in DOMAIN log :
          log[j].route # "copy" => "optimized_size_mb" \in DOMAIN log[j].result

ListedFailures == {"decode", "resize", "encode",
                   "FileNotFoundError", "returncode", "TimeoutExpired"}

\* C3: when a transcode fails (decode, resize or encode error; ffmpeg missing,
\* exiting non-zero or timing out) and the call returns, the result has
\* success = false, an error message, reduction_percent = 0, and the path in
\* its 'output' field holds a copy of the source file.  Stated of the call
\* that returned last, from its return until the next call starts.
C3_FailedTranscodeLeavesCopy ==
    (log # <<>> /\ pc # "crashed") =>
        LET e == log[Len(log)]
        IN (e.route # "copy" /\ e.exc \in ListedFailures) =>
              /\ e.result["success"] = FALSE
              /\ e.result["error"] # "None"
              /\ e.result["reduction_percent"] = 0
              /\ e.result["output"] = OutputFile(RelativeTo(e.source))
              /\ e.result["output"] \in DOMAIN fs
              /\ fs[e.result["output"]] =
                    [kind |-> "copy", of |-> e.source, size |-> e.result["original_size_mb"]]
              /\ e.result["optimized_size_mb"] = e.result["original_size_mb"]

C3_Witness ==
    /\ Len(log) = 2
    /\ log[1].route = "videos" /\ log[1].exc = "TimeoutExpired"
    /\ log[2].route = "images" /\ log[2].exc = "encode"
    /\ HoldsCopy(log[2].result["output"], log[2].source)

\* C4 as stated: a failed transcode never aborts the batch, so every run is
\* either at its end (the summary printed, or the early return) or able to
\* take its next step.  The one halt left aside is the pass-through copy of
\* main() itself failing, which is no transcode failure.
C4_TranscodeFailureNeverAborts ==
    \/ pc \in {"done", "returned"}
    \/ ENABLED Next
    \/ (pc = "crashed" /\ crash.from = "main" /\ crash.exc = "OSError")

\* the sum of one field over the results logged for a category
RECURSIVE SumField(_, _, _)
SumField(category, name, n) ==
    IF n = 0 THEN 0
    ELSE SumField(category, name, n - 1)
            + (IF log[n].route = category THEN log[n].result[name] ELSE 0)

StatsMatch(data, category) ==
    LET routed == {k \in 1..(idx - 1) :
                      (IF pipeline = "media" THEN Route(files_to_process[k].rel.suffix)
                                             ELSE "images") = category}
        failed == {j \in DOMAIN log : log[j].route = category /\ ~log[j].result["success"]}
    IN /\ data.processed = Cardinality(routed)
       /\ data.errors = Cardinality(failed)
       /\ 0 <= data.errors /\ data.errors <= data.processed
       /\ data.original_size = SumField(category, "original_size_mb", Len(log))
       /\ data.optimized_size = SumField(category, "optimized_size_mb", Len(log))

\* C5: after any number of iterations, each category's processed is the number
\* of files so far routed to it, errors the number of those whose result has
\* success = false, original_size and optimized_size the sums of the results'
\* fields; pass-through copies count nowhere.
C5_StatsAreTheFoldOfTheResults ==
    Running =>
        IF pipeline = "media"
        THEN StatsMatch(stats["images"], "images") /\ StatsMatch(stats["videos"], "videos")
        ELSE StatsMatch(stats, "images")

C5_Witness ==
    /\ pipeline = "media"
    /\ pc = "done"
    /\ Len(log) = 2
    /\ log[1].route = "images" /\ ~log[1].result["success"]
    /\ log[2].route = "copy"
    /\ stats["images"].errors = 1

\* C6 as stated: the video transcoder never upscales: the height ffmpeg is told
\* to produce is at most 720 and at most the height of the source.
C6_VideoNeverUpscaled ==
    pc = "scaled" =>
        /\ vid_out[2] <= VIDEO_MAX_HEIGHT
        /\ vid_out[2] <= vid_size[2]

Abs(x) == IF x < 0 THEN 0 - x ELSE x

\* C7: an image within 1920 x 1080 keeps its size; a larger one comes out
\* within 1920 x 1080, no larger than it was in either dimension, and each
\* dimension within one pixel of the input dimension times
\* min(1920 / w, 1080 / h).
C7_ResizeWithinBounds ==
    pc = "resized" =>
        LET w == img_size[1]
            h == img_size[2]
            out_w == new_size[1]
            out_h == new_size[2]
        IN IF w <= IMAGE_MAX_WIDTH /\ h <= IMAGE_MAX_HEIGHT
           THEN new_size = img_size
           ELSE /\ out_w <= IMAGE_MAX_WIDTH /\ out_h <= IMAGE_MAX_HEIGHT
                /\ out_w <= w /\ out_h <= h
                /\ out_w >= 0 /\ out_h >= 0
                /\ IF IMAGE_MAX_WIDTH * h <= IMAGE_MAX_HEIGHT * w
                   THEN /\ Abs(out_w * w - w * IMAGE_MAX_WIDTH) <= w
                        /\ Abs(out_h * w - h * IMAGE_MAX_WIDTH) <= w
                   ELSE /\ Abs(out_w * h - w * IMAGE_MAX_HEIGHT) <= h
                        /\ Abs(out_h * h - h * IMAGE_MAX_HEIGHT) <= h

C7_Witness ==
    /\ pc = "resized"
    /\ img_size = <<3000, 2000>>
    /\ new_size = <<1620, 1080>>

HasEvent(name) == \E k \in DOMAIN printed : printed[k].ev = name

\* C8: with the source root missing, main() reports the error and returns, and
\* nothing else happens: no file listed or handled, the output directory not
\* created, no stats, no summary.
C8_MissingSourceNoEffect ==
    ~source_exists =>
        /\ pc \in {"start", "returned"}
        /\ pc = "returned" => HasEvent("error_missing")
        /\ ~output_dir_created
        /\ files_to_process = <<>>
        /\ idx = 0
        /\ log = <<>>
        /\ DOMAIN fs = {}
        /\ DOMAIN stats = {}
        /\ ~HasEvent("summary")
        /\ ~HasEvent("progress")

C8_Witness ==
    /\ ~source_exists
    /\ pc = "returned"
    /\ HasEvent("error_missing")

BlockGuarded(block) ==
    /\ block.reduction.shown <=> block.original_size > 0
    /\ block.reduction.pct.raises = "None"

\* C9: no run ends in a division by zero.  Once the loop is over the summary
\* can be printed, every percentage in it is computed exactly when its total
\* original size is above 0, an empty source directory gives a summary of
\* zeros, and a per-file reduction is a success value only when the original
\* size is above 0.
C9_NoDivisionByZero ==
    /\ crash.exc # "ZeroDivisionError"
    /\ \A j \in DOMAIN log :
          (log[j].route # "copy" /\ log[j].result["success"]) =>
              log[j].result["original_size_mb"] > 0
    /\ (pc = "loop" /\ idx > Len(files_to_process)) =>
          ENABLED (MediaSummary \/ ProductosSummary)
    /\ pc = "done" =>
          \E k \in DOMAIN printed :
              /\ printed[k].ev = "summary"
              /\ LET summary == printed[k].detail
                 IN IF pipeline = "media"
                    THEN /\ \A c \in DOMAIN summary.categories :
                               BlockGuarded(summary.categories[c])
                         /\ summary.total.reduction.shown <=> summary.total.original > 0
                         /\ summary.total.reduction.pct.raises = "None"
                         /\ files_to_process = <<>> =>
                               /\ DOMAIN summary.categories = {}
                               /\ summary.total.original = 0
                               /\ summary.total.optimized = 0
                    ELSE /\ BlockGuarded(summary.images)
                         /\ files_to_process = <<>> =>
                               /\ summary.images.processed = 0
                               /\ summary.images.original_size = 0
                               /\ ~summary.images.reduction.shown

C9_Witness ==
    /\ pipeline = "productos"
    /\ source_exists
    /\ tree = <<>>
    /\ pc = "done"
    /\ HasEvent("summary")

\* C10 as stated: two distinct source files never write the same destination
\* path.
C10_DistinctSourcesDistinctDestinations ==
    \A p \in DOMAIN writers : Cardinality(writers[p]) <= 1

====
